---- MODULE Spec2Model ----
(***************************************************************************)
(* A state-machine model of the SPH water simulation: the spatial hash and *)
(* the SPHSimulation engine of src/sph.js, and the driver of               *)
(* src/renderer.js (game loop, pointer handlers) with the hand tracker's   *)
(* result callback of src/handtracker.js.                                  *)
(*                                                                         *)
(* Numbers.  The program computes in IEEE doubles; the model computes in   *)
(* fixed point on integers.  A position, length or radius is held in       *)
(* 1/PosScale px, a velocity in 1/VelScale px/s, a force in 1/ForceScale,  *)
(* a density in 1/DensScale, a pressure in whole units.  Every expression  *)
(* of the source is one expression of the model, evaluated exactly over    *)
(* the integers and rounded toward zero once (MulDiv).                     *)
(***************************************************************************)
EXTENDS Integers, Sequences, FiniteSets, TLC

(***************************************************************************)
(* Fixed-point units                                                       *)
(***************************************************************************)
PosScale == 100
VelScale == 100
ForceScale == 100
DensScale == 1000000
InflScale == 1000

(***************************************************************************)
(* Integer helpers                                                         *)
(***************************************************************************)
Abs(a) == IF a < 0 THEN -a ELSE a

Sign(a) == IF a < 0 THEN -1 ELSE IF a > 0 THEN 1 ELSE 0

\* <<floor(a*b/c), (a*b) mod c>> for 0 <= a < c and b >= 0, by doubling on b:
\* no intermediate value exceeds 3*c.
RECURSIVE MulQR(_, _, _)
MulQR(a, b, c) ==
  IF b = 0 THEN <<0, 0>>
  ELSE LET h == MulQR(a, b \div 2, c)
           t == 2 * h[2] + (IF b % 2 = 1 THEN a ELSE 0)
       IN  <<2 * h[1] + (t \div c), t % c>>

\* <<floor(a*b/c), (a*b) mod c>> for a, b >= 0 and c > 0; the doubling runs on
\* the smaller factor.
MulDivQR(a, b, c) ==
  LET big == IF a < b THEN b ELSE a
      small == IF a < b THEN a ELSE b
      h == MulQR(big % c, small, c)
  IN  <<(big \div c) * small + h[1], h[2]>>

\* The largest magnitude a stored quantity takes: the model's stand-in for the
\* range of a double.  A result beyond it is held at it, sign kept; the program
\* reaches such values only when the simulation has blown up.
SatMax == 536870912

Sat(a) == IF a > SatMax THEN SatMax ELSE IF a < -SatMax THEN -SatMax ELSE a

\* a*b/c as the real number, rounded toward zero and held within SatMax.  A
\* zero divisor is what the history variable zeroDiv records; the quotient is
\* then immaterial (0).
MulDiv(a, b, c) ==
  LET big == IF Abs(a) < Abs(b) THEN Abs(b) ELSE Abs(a)
      small == IF Abs(a) < Abs(b) THEN Abs(a) ELSE Abs(b)
  IN  IF c = 0 \/ small = 0 THEN 0
      ELSE IF big \div Abs(c) > SatMax \div small
      THEN Sign(a) * Sign(b) * Sign(c) * SatMax
      ELSE Sign(a) * Sign(b) * Sign(c) * Sat(MulDivQR(big, small, Abs(c))[1])

\* d*d, saturated so that a sum of two squares stays a machine integer; the
\* saturated value is larger than any squared radius the model compares with.
SqCap == 32000
Sq(d) == IF Abs(d) > SqCap THEN SqCap * SqCap ELSE d * d

\* Math.sqrt on a fixed-point square: the integer square root.
RECURSIVE SqrtSearch(_, _, _)
SqrtSearch(n, lo, hi) ==
  IF lo >= hi THEN lo
  ELSE LET mid == (lo + hi + 1) \div 2
       IN  IF mid * mid <= n THEN SqrtSearch(n, mid, hi)
           ELSE SqrtSearch(n, lo, mid - 1)

Sqrt(n) == SqrtSearch(n, 0, 46340)

\* a ^ b on 4-bit and on 16-bit operands.
RECURSIVE XorBits(_, _, _)
XorBits(a, b, bits) ==
  IF bits = 0 THEN 0
  ELSE ((a + b) % 2) + 2 * XorBits(a \div 2, b \div 2, bits - 1)

Xor4 == [a \in 0..15 |-> [b \in 0..15 |-> XorBits(a, b, 4)]]

Xor16(a, b) ==
  Xor4[a % 16][b % 16]
  + 16 * Xor4[(a \div 16) % 16][(b \div 16) % 16]
  + 256 * Xor4[(a \div 256) % 16][(b \div 256) % 16]
  + 4096 * Xor4[a \div 4096][b \div 4096]

\* ToInt32(c * p) as the pair <<high 16 bits, low 16 bits>>: the product is
\* exact in a double for every cell coordinate the model reaches
\* (|c * p| < 2^53), and ToInt32 takes it modulo 2^32.
Mul32(c, p) ==
  LET qr == MulDivQR(Abs(c), p, 65536)
      hi == qr[1] % 65536
      lo == qr[2]
  IN  IF c >= 0 THEN <<hi, lo>>
      ELSE IF lo = 0 THEN <<(65536 - hi) % 65536, 0>>
      ELSE <<65535 - hi, 65536 - lo>>

\* The signed 32-bit integer whose halves are w.
ToInt32(w) == (IF w[1] >= 32768 THEN w[1] - 65536 ELSE w[1]) * 65536 + w[2]

(***************************************************************************)
(* src/sph.js: constants                                                   *)
(***************************************************************************)
H == 35 * PosScale
H2 == H * H
REST_DENSITY == 1000
GAS_CONSTANT == 2000
VISCOSITY == 250
PARTICLE_MASS == 65
SUBSTEPS == 4
PARTICLE_RADIUS == 6 * PosScale
\* DT = 0.0008 = DT_NUM / DT_DEN
DT_NUM == 8
DT_DEN == 10000
\* DAMPING = -0.5 = DAMPING_NUM / DAMPING_DEN
DAMPING_NUM == -1
DAMPING_DEN == 2
\* The 0.0001 added to every density denominator, in 1/DensScale.
DensityEps == DensScale \div 10000
\* The r2 > 0.0001 guard of the force pass, in 1/PosScale^2.
MinDist2 == (PosScale * PosScale) \div 10000
\* 1 / (PARTICLE_MASS * POLY6_COEFF) = pi * 35^8 / 260, divided by 100.
MASS_POLY6_INV == 272095199
\* 1 / (PARTICLE_MASS * -SPIKY_GRAD_COEFF) = pi * 35^5 / 650.
MASS_SPIKY_INV == 253850
\* 1000 / (VISC_LAP_COEFF * VISCOSITY * PARTICLE_MASS) = pi * 35^5 / 650.
MASS_VISC_INV == 253850
HASH_P1 == 73856093
HASH_P2 == 19349663

(***************************************************************************)
(* State                                                                   *)
(***************************************************************************)
VARIABLES
  particles,      \* SPHSimulation.particles: sequence of particle records
  width,          \* SPHSimulation.width
  height,         \* SPHSimulation.height
  gravityEnabled, \* SPHSimulation.gravityEnabled
  handForces,     \* SPHSimulation.handForces: sequence of sample references
  grid,           \* SpatialHash.grid: bucket key -> sequence of particle indices
  neighbors,      \* the array the last direct getNeighbors call returned
  query,          \* the point of that call
  pc,             \* where the running step() call stands ("idle": none runs)
  sub,            \* the substep index s of the running step() call
  mouseObjs,      \* the sample objects pointerdown has created, by identity
  mouseForce,     \* renderer.js mouseForce: 0 (null) or an index of mouseObjs
  prevMouse,      \* renderer.js prevMouse: <<>> (null) or <<[x, y]>>
  trackerForces,  \* HandTracker.handForces
  trackerPrev,    \* HandTracker.prevPositions: key -> [x, y, vx, vy]
  last,           \* history: the operation or phase that ran last
  spawned,        \* history: particles asked for since construction or reset
  phaseLog,       \* history: the phases the running or last step() call ran
  readForces,     \* history: the sample values each force pass of that call read
  stamps,         \* history: which positions the hash, densities and forces are of
  fresh,          \* history: setHandForces was called since the last step()
  zeroDiv,        \* history: some division of a pass had a zero divisor
  start,          \* history: the particles as the running or last step() call found them
  budget          \* history: calls and events left, to keep the model finite

vars == <<particles, width, height, gravityEnabled, handForces, grid, neighbors,
          query, pc, sub, mouseObjs, mouseForce, prevMouse, trackerForces,
          trackerPrev, last, spawned, phaseLog, readForces, stamps, fresh,
          zeroDiv, start, budget>>

(***************************************************************************)
(* src/sph.js: SpatialHash                                                 *)
(***************************************************************************)
\* new SpatialHash(H)
CellSize == H

\* Math.floor(x / this.cellSize)
CellCoord(x) == x \div CellSize

\* (cx * 73856093) ^ (cy * 19349663)
CellKey(cx, cy) ==
  LET a == Mul32(cx, HASH_P1)
      b == Mul32(cy, HASH_P2)
  IN  ToInt32(<<Xor16(a[1], b[1]), Xor16(a[2], b[2])>>)

GetKey(x, y) == CellKey(CellCoord(x), CellCoord(y))

EmptyGrid == [k \in {} |-> <<>>]

\* insert(particle): the particle is held by its index in the collection.
Insert(g, ps, i) ==
  LET key == GetKey(ps[i].x, ps[i].y)
  IN  IF key \in DOMAIN g THEN [g EXCEPT ![key] = Append(@, i)]
      ELSE g @@ (key :> <<i>>)

\* for dx = -1..1, for dy = -1..1: the cell offsets in loop order.
BlockOffsetsLeftHalf == [k \in 1..4 |-> <<((k - 1) \div 2) - 1, ((k - 1) % 2) - 1>>]

BlockOffsets == [k \in 1..9 |-> <<((k - 1) \div 3) - 1, ((k - 1) % 3) - 1>>]

RECURSIVE CollectCells(_, _, _, _)
CollectCells(g, cx, cy, k) ==
  IF k > Len(BlockOffsets) THEN <<>>
  ELSE LET key == CellKey(cx + BlockOffsets[k][1], cy + BlockOffsets[k][2])
           cell == IF key \in DOMAIN g THEN g[key] ELSE <<>>
       IN  cell \o CollectCells(g, cx, cy, k + 1)

GetNeighbors(g, x, y) == CollectCells(g, CellCoord(x), CellCoord(y), 1)

\* this.spatialHash.clear(); for each particle: this.spatialHash.insert(...)
RECURSIVE InsertAll(_, _, _)
InsertAll(g, ps, i) ==
  IF i > Len(ps) THEN g ELSE InsertAll(Insert(g, ps, i), ps, i + 1)

RebuildHash(ps) == InsertAll(EmptyGrid, ps, 1)

(***************************************************************************)
(* src/sph.js: SPHSimulation, the passes                                   *)
(***************************************************************************)
CreateParticle(x, y, vx, vy) ==
  [x |-> x, y |-> y, vx |-> vx, vy |-> vy, fx |-> 0, fy |-> 0,
   density |-> 0, pressure |-> 0]

\* this.gravity = { x: 0, y: 400 }
GravityX == 0
GravityY == 400

Dist2(ax, ay, bx, by) == Sq(bx - ax) + Sq(by - ay)

\* PARTICLE_MASS * POLY6_COEFF * diff * diff * diff, diff = H2 - r2
Poly6Term(diff) ==
  MulDiv(MulDiv(diff, diff, PosScale * PosScale * PosScale * PosScale),
         diff, MASS_POLY6_INV)

\* if (r2 < H2)
InKernel(r2) == r2 < H2

RECURSIVE DensitySum(_, _, _, _)
DensitySum(ps, i, nb, j) ==
  IF j > Len(nb) THEN 0
  ELSE LET r2 == Dist2(ps[i].x, ps[i].y, ps[nb[j]].x, ps[nb[j]].y)
       IN  (IF InKernel(r2) THEN Poly6Term(H2 - r2) ELSE 0)
           + DensitySum(ps, i, nb, j + 1)

\* pi.pressure = GAS_CONSTANT * (pi.density - REST_DENSITY)
PressureOfNoRest(density) == MulDiv(density, GAS_CONSTANT, DensScale)

PressureOf(density) ==
  MulDiv(density - REST_DENSITY * DensScale, GAS_CONSTANT, DensScale)

\* computeDensityPressure(): no pass reads a density, so the loop over i is a map.
DensityPass(ps, g) ==
  [i \in 1..Len(ps) |->
     LET d == DensitySum(ps, i, GetNeighbors(g, ps[i].x, ps[i].y), 1)
     IN  [ps[i] EXCEPT !.density = d, !.pressure = PressureOf(d)]]

\* A force sample: {x, y, vx, vy, radius}; hasRadius = FALSE is a sample whose
\* radius is undefined.
Sample(x, y, vx, vy, hasRadius, radius) ==
  [x |-> x, y |-> y, vx |-> vx, vy |-> vy, hasRadius |-> hasRadius,
   radius |-> radius]

\* An element of a sample list: the object itself (ref = 0, a sample nothing
\* else keeps), or the object mouseObjs[ref] that the pointer handlers keep
\* and change in place.
Inline(s) == [ref |-> 0, s |-> s]
MouseRef(k) == [ref |-> k, s |-> Sample(0, 0, 0, 0, FALSE, 0)]
Deref(objs, e) == IF e.ref = 0 THEN e.s ELSE objs[e.ref]
Samples(objs, list) == [k \in 1..Len(list) |-> Deref(objs, list[k])]

\* if (pi === pj) continue; ... if (r2 < H2 && r2 > 0.0001)
PairInRangeNoEps(r2) == r2 < H2

PairInRange(r2) == r2 < H2 /\ r2 > MinDist2

\* SPIKY_GRAD_COEFF * diff * diff * (pi.pressure + pj.pressure)
\*   / (2 * pj.density + 0.0001) * PARTICLE_MASS
PressureScale(diff, pSum, densJ) ==
  -MulDiv(MulDiv(diff * diff, pSum, 2 * densJ + DensityEps),
          (DensScale \div (PosScale * PosScale)) * ForceScale, MASS_SPIKY_INV)

\* (pj.v - pi.v) * VISC_LAP_COEFF * diff * VISCOSITY * PARTICLE_MASS
\*   / (pj.density + 0.0001)
ViscTerm(dv, diff, densJ) ==
  MulDiv(MulDiv(dv, diff * (DensScale \div PosScale), densJ + DensityEps),
         (ForceScale * 1000) \div VelScale, MASS_VISC_INV)

\* The contribution of neighbour pj to pi: <<fpx, fpy, fvx, fvy>>.
PairForce(pi, pj) ==
  LET dx == pj.x - pi.x
      dy == pj.y - pi.y
      r2 == Sq(dx) + Sq(dy)
      r == Sqrt(r2)
      diff == H - r
      ps == PressureScale(diff, pi.pressure + pj.pressure, pj.density)
  IN  IF PairInRange(r2)
      THEN <<MulDiv(dx, ps, r), MulDiv(dy, ps, r),
             ViscTerm(pj.vx - pi.vx, diff, pj.density),
             ViscTerm(pj.vy - pi.vy, diff, pj.density)>>
      ELSE <<0, 0, 0, 0>>

\* The divisors PairForce divides by.
PairDivisors(pi, pj) ==
  LET r2 == Dist2(pi.x, pi.y, pj.x, pj.y)
  IN  IF PairInRange(r2)
      THEN {2 * pj.density + DensityEps, Sqrt(r2), pj.density + DensityEps}
      ELSE {}

RECURSIVE PairSum(_, _, _, _)
PairSum(ps, i, nb, j) ==
  IF j > Len(nb) THEN <<0, 0, 0, 0>>
  ELSE LET rest == PairSum(ps, i, nb, j + 1)
           c == IF nb[j] = i THEN <<0, 0, 0, 0>> ELSE PairForce(ps[i], ps[nb[j]])
       IN  <<Sat(c[1] + rest[1]), Sat(c[2] + rest[2]),
             Sat(c[3] + rest[3]), Sat(c[4] + rest[4])>>

\* const hRadius = hand.radius || 80
HandRadius(hand) ==
  IF hand.hasRadius /\ hand.radius # 0 THEN hand.radius ELSE 80 * PosScale

\* if (hDist2 < hRadius2 && hDist2 > 1)
HandInRange(hDist2, hRadius2) ==
  hDist2 < hRadius2 /\ hDist2 > PosScale * PosScale

\* The contribution of one sample to pi: <<fx, fy>>.
HandForce(pi, hand) ==
  LET hdx == pi.x - hand.x
      hdy == pi.y - hand.y
      hDist2 == Sq(hdx) + Sq(hdy)
      hRadius == HandRadius(hand)
      hRadius2 == Sq(hRadius)
      hDist == Sqrt(hDist2)
      influence == InflScale - MulDiv(hDist, InflScale, hRadius)
      \* 8000 * influence * influence
      strength == MulDiv(influence * influence, 8000, InflScale * InflScale)
      \* strength * pi.density
      push == MulDiv(strength, pi.density, DensScale \div ForceScale)
      \* (hand.v - pi.v) * 3000 * influence
      DragTerm(dv) == MulDiv(dv, 3000 * influence, (InflScale * VelScale) \div ForceScale)
  IN  IF HandInRange(hDist2, hRadius2)
      THEN <<Sat(MulDiv(hdx, push, hDist) + DragTerm(hand.vx - pi.vx)),
             Sat(MulDiv(hdy, push, hDist) + DragTerm(hand.vy - pi.vy))>>
      ELSE <<0, 0>>

\* The divisors HandForce divides by.
HandDivisors(pi, hand) ==
  LET hDist2 == Dist2(hand.x, hand.y, pi.x, pi.y)
      hRadius == HandRadius(hand)
  IN  IF HandInRange(hDist2, Sq(hRadius)) THEN {hRadius, Sqrt(hDist2)} ELSE {}

RECURSIVE HandSum(_, _, _)
HandSum(pi, hands, h) ==
  IF h > Len(hands) THEN <<0, 0>>
  ELSE LET rest == HandSum(pi, hands, h + 1)
           c == HandForce(pi, hands[h])
       IN  <<Sat(c[1] + rest[1]), Sat(c[2] + rest[2])>>

\* gx * pi.density, gy * pi.density
GravityTerm(g, density) == MulDiv(g, density, DensScale \div ForceScale)

\* computeForces(): a pass reads positions, velocities, densities and pressures
\* and writes fx, fy only, so the loop over i is a map.
ForcePass(ps, g, hands, gravityOn) ==
  [i \in 1..Len(ps) |->
     LET gx == IF gravityOn THEN GravityX ELSE 0
         gy == IF gravityOn THEN GravityY ELSE 0
         f == PairSum(ps, i, GetNeighbors(g, ps[i].x, ps[i].y), 1)
         hf == HandSum(ps[i], hands, 1)
     IN  [ps[i] EXCEPT
            !.fx = Sat(Sat(f[1] + f[3] + GravityTerm(gx, ps[i].density)) + hf[1]),
            !.fy = Sat(Sat(f[2] + f[4] + GravityTerm(gy, ps[i].density)) + hf[2])]]

\* Every divisor of one force pass.
ForceDivisors(ps, g, hands) ==
  UNION {
    LET nb == GetNeighbors(g, ps[i].x, ps[i].y)
    IN  UNION ({IF nb[j] = i THEN {} ELSE PairDivisors(ps[i], ps[nb[j]]) :
                  j \in 1..Len(nb)}
               \cup {HandDivisors(ps[i], hands[h]) : h \in 1..Len(hands)})
    : i \in 1..Len(ps)}

\* One axis of the boundary collisions: <<position, velocity>>.
ClampAxisLowOnly(x, v, size) ==
  IF x < PARTICLE_RADIUS
  THEN <<PARTICLE_RADIUS, MulDiv(v, DAMPING_NUM, DAMPING_DEN)>>
  ELSE <<x, v>>

ClampAxisElastic(x, v, size) ==
  LET lo == IF x < PARTICLE_RADIUS THEN <<PARTICLE_RADIUS, -v>> ELSE <<x, v>>
  IN  IF lo[1] > size - PARTICLE_RADIUS
      THEN <<size - PARTICLE_RADIUS, -lo[2]>>
      ELSE lo

ClampAxis(x, v, size) ==
  LET lo == IF x < PARTICLE_RADIUS
            THEN <<PARTICLE_RADIUS, MulDiv(v, DAMPING_NUM, DAMPING_DEN)>>
            ELSE <<x, v>>
  IN  IF lo[1] > size - PARTICLE_RADIUS
      THEN <<size - PARTICLE_RADIUS, MulDiv(lo[2], DAMPING_NUM, DAMPING_DEN)>>
      ELSE lo

\* p.v += dt * p.f / (p.density + 0.0001)
Accelerate(v, f, density) ==
  Sat(v + MulDiv(f, (DT_NUM * DensScale * VelScale) \div (DT_DEN * ForceScale),
             density + DensityEps))

\* p.x += dt * p.v
Advance(x, v) == x + MulDiv(v, DT_NUM * PosScale, DT_DEN * VelScale)

\* integrate(dt), dt = DT
IntegratePass(ps, w, h) ==
  [i \in 1..Len(ps) |->
     LET vx == Accelerate(ps[i].vx, ps[i].fx, ps[i].density)
         vy == Accelerate(ps[i].vy, ps[i].fy, ps[i].density)
         cx == ClampAxis(Advance(ps[i].x, vx), vx, w)
         cy == ClampAxis(Advance(ps[i].y, vy), vy, h)
     IN  [ps[i] EXCEPT !.x = cx[1], !.vx = cx[2], !.y = cy[1], !.vy = cy[2]]]

\* The divisors of one integrate pass.
IntegrateDivisors(ps) == {ps[i].density + DensityEps : i \in 1..Len(ps)}

(***************************************************************************)
(* src/sph.js: SPHSimulation, the operations                               *)
(***************************************************************************)
simVars == <<particles, width, height, gravityEnabled, handForces, grid>>
hashVars == <<neighbors, query>>
stepVars == <<pc, sub>>
driverVars == <<mouseObjs, mouseForce, prevMouse, trackerForces, trackerPrev>>
stepHistory == <<phaseLog, readForces, stamps, start>>

\* Bounds of the model.
MaxParticles == 2
MaxSteps == 2
MaxCalls == 2
MaxIntegrates == 2
MaxHashParticles == 2
MaxPhysParticles == 2
MaxPhysSteps == 1

Px(n) == n * PosScale

Idle == pc = "idle"

Spend(what) == [budget EXCEPT ![what] = @ - 1]

\* Math.random() draws for one blob particle: its offset inside the disc of
\* radius spread (r = Math.random() * spread < spread) and its velocity
\* ((Math.random() - 0.5) * 50 on each axis).
BlobDraws(spread) ==
  {<<<<0, 0>>, <<0, 0>>>>,
   <<<<spread \div 16, 0>>, <<20 * VelScale, -25 * VelScale>>>>}

\* spawnBlob(cx, cy, count, spread): draws[i] = <<offset, velocity>> of particle i.
BlobParticles(cx, cy, count, draws) ==
  [i \in 1..count |->
     CreateParticle(cx + draws[i][1][1], cy + draws[i][1][2],
                    draws[i][2][1], draws[i][2][2])]

SpawnBlob ==
  /\ Idle
  /\ budget.calls > 0
  /\ \E count \in 1..2 :
       /\ Len(particles) + count <= MaxParticles
       /\ \E draws \in [1..count -> BlobDraws(Px(80))] :
            particles' = particles \o BlobParticles(Px(100), Px(100), count, draws)
       /\ spawned' = spawned + count
  /\ last' = "spawnBlob"
  /\ budget' = Spend("calls")
  /\ UNCHANGED <<width, height, gravityEnabled, handForces, grid, hashVars,
                 stepVars, driverVars, stepHistory, fresh, zeroDiv>>

\* spawnGrid(cx, cy, cols, rows, spacing): column i, row j, in loop order; jit
\* is the draw (Math.random() - 0.5) * 2 of every coordinate.
GridParticlesShort(cx, cy, cols, rows, spacing, jit) ==
  [k \in 1..((cols - 1) * rows) |->
     CreateParticle(cx - (cols * spacing) \div 2 + ((k - 1) \div rows) * spacing + jit,
                    cy - (rows * spacing) \div 2 + ((k - 1) % rows) * spacing + jit,
                    0, 0)]

GridParticles(cx, cy, cols, rows, spacing, jit) ==
  [k \in 1..(cols * rows) |->
     CreateParticle(cx - (cols * spacing) \div 2 + ((k - 1) \div rows) * spacing + jit,
                    cy - (rows * spacing) \div 2 + ((k - 1) % rows) * spacing + jit,
                    0, 0)]

SpawnGrid ==
  /\ Idle
  /\ budget.calls > 0
  /\ \E dims \in {<<0, 1>>, <<1, 2>>, <<2, 1>>} :
     LET cols == dims[1]
         rows == dims[2]
     IN  /\ Len(particles) + cols * rows <= MaxParticles
         /\ particles' = particles
              \o GridParticles(Px(105), Px(100) + Px(5) \div 2, cols, rows, Px(5), 0)
         /\ spawned' = spawned + cols * rows
  /\ last' = "spawnGrid"
  /\ budget' = Spend("calls")
  /\ UNCHANGED <<width, height, gravityEnabled, handForces, grid, hashVars,
                 stepVars, driverVars, stepHistory, fresh, zeroDiv>>

\* getParticleCount()
GetParticleCount == Len(particles)

\* reset()
Reset ==
  /\ Idle
  /\ budget.calls > 0
  /\ particles' = <<>>
  /\ spawned' = 0
  /\ last' = "reset"
  /\ budget' = Spend("calls")
  /\ UNCHANGED <<width, height, gravityEnabled, handForces, grid, hashVars,
                 stepVars, driverVars, stepHistory, fresh, zeroDiv>>

\* The sample lists a caller of setHandForces supplies.
ForceLists ==
  {<<>>, <<Inline(Sample(Px(110), Px(100), 30 * VelScale, 0, TRUE, Px(70)))>>}

\* setHandForces(forces)
SetHandForces ==
  /\ Idle
  /\ budget.calls > 0
  /\ \E forces \in ForceLists : handForces' = forces
  /\ fresh' = TRUE
  /\ last' = "setHandForces"
  /\ budget' = Spend("calls")
  /\ UNCHANGED <<particles, width, height, gravityEnabled, grid, hashVars,
                 stepVars, driverVars, stepHistory, spawned, zeroDiv>>

\* resize(width, height): what it leaves in this.particles.
ResizeParticlesClamped(ps, w, h) ==
  [i \in 1..Len(ps) |->
     [ps[i] EXCEPT !.x = IF @ > w - PARTICLE_RADIUS THEN w - PARTICLE_RADIUS ELSE @,
                   !.y = IF @ > h - PARTICLE_RADIUS THEN h - PARTICLE_RADIUS ELSE @]]

ResizeParticles(ps, w, h) == ps

\* onResize(): sim.resize(w, h) and tracker.resize(w, h) with the window's size.
Resize ==
  /\ Idle
  /\ budget.calls > 0
  /\ \E w \in {Px(90)}, h \in {Px(200)} :
       /\ width' = w
       /\ height' = h
       /\ particles' = ResizeParticles(particles, w, h)
  /\ last' = "resize"
  /\ budget' = Spend("calls")
  /\ UNCHANGED <<gravityEnabled, handForces, grid, hashVars, stepVars,
                 driverVars, stepHistory, spawned, fresh, zeroDiv>>

\* window.toggleGravity
ToggleGravity ==
  /\ Idle
  /\ budget.calls > 0
  /\ gravityEnabled' = ~gravityEnabled
  /\ last' = "toggleGravity"
  /\ budget' = Spend("calls")
  /\ UNCHANGED <<particles, width, height, handForces, grid, hashVars, stepVars,
                 driverVars, stepHistory, spawned, fresh, zeroDiv>>

\* The substep a pass belongs to: the step() call's number and s.
Tag == <<budget.steps, sub>>

Positions(ps) == [i \in 1..Len(ps) |-> <<ps[i].x, ps[i].y>>]

\* step(): which pass follows which, and in which substep.
NextPhaseRebuildOnce(phase, s) ==
  CASE phase = "rebuild" -> <<"density", s>>
    [] phase = "density" -> <<"forces", s>>
    [] phase = "forces" -> <<"integrate", s>>
    [] phase = "integrate" ->
         IF s + 1 < SUBSTEPS THEN <<"density", s + 1>> ELSE <<"idle", s + 1>>

NextPhase(phase, s) ==
  CASE phase = "rebuild" -> <<"density", s>>
    [] phase = "density" -> <<"forces", s>>
    [] phase = "forces" -> <<"integrate", s>>
    [] phase = "integrate" ->
         IF s + 1 < SUBSTEPS THEN <<"rebuild", s + 1>> ELSE <<"idle", s + 1>>

\* The effect of entering step(): const dt = DT; s = 0.
EnterStep ==
  /\ pc' = "rebuild"
  /\ sub' = 0
  /\ phaseLog' = <<>>
  /\ readForces' = <<>>
  /\ start' = particles
  /\ budget' = Spend("steps")

\* A call of step() from outside the game loop.
StepCall ==
  /\ Idle
  /\ budget.steps > 0
  /\ EnterStep
  /\ last' = "step"
  /\ UNCHANGED <<simVars, hashVars, driverVars, stamps, spawned, fresh, zeroDiv>>

\* this.spatialHash.clear(); for (...) this.spatialHash.insert(this.particles[i])
Rebuild ==
  /\ pc = "rebuild"
  /\ grid' = RebuildHash(particles)
  /\ pc' = NextPhase("rebuild", sub)[1]
  /\ sub' = NextPhase("rebuild", sub)[2]
  /\ phaseLog' = Append(phaseLog, "rebuild")
  /\ stamps' = [stamps EXCEPT !.hash = Tag, !.hashPos = Positions(particles)]
  /\ last' = "rebuild"
  /\ UNCHANGED <<particles, width, height, gravityEnabled, handForces, hashVars,
                 driverVars, readForces, start, spawned, fresh, zeroDiv, budget>>

\* this.computeDensityPressure()
ComputeDensityPressure ==
  /\ pc = "density"
  /\ particles' = DensityPass(particles, grid)
  /\ pc' = NextPhase("density", sub)[1]
  /\ sub' = NextPhase("density", sub)[2]
  /\ phaseLog' = Append(phaseLog, "density")
  /\ stamps' = [stamps EXCEPT !.dens = Tag, !.densHash = stamps.hash,
                              !.densHashPos = stamps.hashPos,
                              !.densPos = Positions(particles)]
  /\ last' = "density"
  /\ UNCHANGED <<width, height, gravityEnabled, handForces, grid, hashVars,
                 driverVars, readForces, start, spawned, fresh, zeroDiv, budget>>

\* What a force pass leaves in this.handForces.
HandForcesAfterPassConsumed(list) == <<>>

HandForcesAfterPass(list) == list

\* this.computeForces()
ComputeForces ==
  /\ pc = "forces"
  /\ particles' = ForcePass(particles, grid, Samples(mouseObjs, handForces),
                            gravityEnabled)
  /\ handForces' = HandForcesAfterPass(handForces)
  /\ zeroDiv' = (zeroDiv \/ 0 \in ForceDivisors(particles, grid,
                                             Samples(mouseObjs, handForces)))
  /\ pc' = NextPhase("forces", sub)[1]
  /\ sub' = NextPhase("forces", sub)[2]
  /\ phaseLog' = Append(phaseLog, "forces")
  /\ readForces' = Append(readForces, Samples(mouseObjs, handForces))
  /\ stamps' = [stamps EXCEPT !.force = Tag, !.forceDens = stamps.dens,
                              !.forceHash = stamps.hash,
                              !.forceHashPos = stamps.hashPos,
                              !.forcePos = Positions(particles)]
  /\ last' = "forces"
  /\ UNCHANGED <<width, height, gravityEnabled, grid, hashVars, driverVars,
                 start, spawned, fresh, budget>>

\* this.integrate(dt); after the last substep step() returns.
Integrate ==
  /\ pc = "integrate"
  /\ particles' = IntegratePass(particles, width, height)
  /\ zeroDiv' = (zeroDiv \/ 0 \in IntegrateDivisors(particles))
  /\ pc' = NextPhase("integrate", sub)[1]
  /\ sub' = NextPhase("integrate", sub)[2]
  /\ phaseLog' = Append(phaseLog, "integrate")
  /\ stamps' = [stamps EXCEPT !.int = Tag, !.intForce = stamps.force]
  /\ fresh' = IF pc' = "idle" THEN FALSE ELSE fresh
  /\ last' = "integrate"
  /\ UNCHANGED <<width, height, gravityEnabled, handForces, grid, hashVars,
                 driverVars, readForces, start, spawned, budget>>

\* A call of integrate(DT) from outside step().
IntegrateCall ==
  /\ Idle
  /\ budget.integrates > 0
  /\ particles' = IntegratePass(particles, width, height)
  /\ zeroDiv' = (zeroDiv \/ 0 \in IntegrateDivisors(particles))
  /\ last' = "integrate"
  /\ budget' = Spend("integrates")
  /\ UNCHANGED <<width, height, gravityEnabled, handForces, grid, hashVars,
                 stepVars, driverVars, stepHistory, spawned, fresh>>

(***************************************************************************)
(* src/renderer.js: pointer handlers and game loop;                        *)
(* src/handtracker.js: the result callback                                 *)
(***************************************************************************)
\* Where the pointer may be (clientX, clientY).
PointerAt == {<<Px(100), Px(110)>>}
PointerTo == {<<Px(120), Px(110)>>}

\* Milliseconds between two events (performance.now() differences).
Elapsed == {0, 16}

\* pointerdown
PointerDown ==
  /\ Idle
  /\ budget.calls > 0
  /\ \E e \in PointerAt :
       /\ prevMouse' = <<[x |-> e[1], y |-> e[2]]>>
       /\ mouseObjs' = Append(mouseObjs, Sample(e[1], e[2], 0, 0, TRUE, Px(80)))
       /\ mouseForce' = Len(mouseObjs) + 1
  /\ last' = "pointerdown"
  /\ budget' = Spend("calls")
  /\ UNCHANGED <<simVars, hashVars, stepVars, trackerForces, trackerPrev,
                 stepHistory, spawned, fresh, zeroDiv>>

\* v * 0.5 + ((to - from) / dt) * 0.5, dt = ms / 1000
SmoothVelocity(v, from, to, ms) ==
  MulDiv(v, 1, 2) + MulDiv((to - from) * 1000, VelScale, 2 * ms * PosScale)

\* pointermove
PointerMove ==
  /\ Idle
  /\ budget.calls > 0
  /\ \E e \in PointerTo, ms \in Elapsed :
       IF mouseForce = 0
       THEN /\ UNCHANGED <<mouseObjs, prevMouse>>
            /\ last' = "pointermove"
       ELSE IF prevMouse = <<>>
       THEN \* prevMouse.t of null: the handler throws
            /\ UNCHANGED <<mouseObjs, prevMouse>>
            /\ last' = "TypeError"
       ELSE /\ mouseObjs' =
                 [mouseObjs EXCEPT ![mouseForce] =
                    [@ EXCEPT
                       !.vx = IF ms > 0
                              THEN SmoothVelocity(@, prevMouse[1].x, e[1], ms) ELSE @,
                       !.vy = IF ms > 0
                              THEN SmoothVelocity(@, prevMouse[1].y, e[2], ms) ELSE @,
                       !.x = e[1],
                       !.y = e[2]]]
            /\ prevMouse' = <<[x |-> e[1], y |-> e[2]]>>
            /\ last' = "pointermove"
  /\ budget' = Spend("calls")
  /\ UNCHANGED <<simVars, hashVars, stepVars, mouseForce, trackerForces,
                 trackerPrev, stepHistory, spawned, fresh, zeroDiv>>

\* pointerup
PointerUp ==
  /\ Idle
  /\ budget.calls > 0
  /\ mouseForce' = 0
  /\ prevMouse' = <<>>
  /\ last' = "pointerup"
  /\ budget' = Spend("calls")
  /\ UNCHANGED <<simVars, hashVars, stepVars, mouseObjs, trackerForces,
                 trackerPrev, stepHistory, spawned, fresh, zeroDiv>>

\* pointerleave
PointerLeave ==
  /\ Idle
  /\ budget.calls > 0
  /\ mouseForce' = 0
  /\ prevMouse' = <<>>
  /\ last' = "pointerleave"
  /\ budget' = Spend("calls")
  /\ UNCHANGED <<simVars, hashVars, stepVars, mouseObjs, trackerForces,
                 trackerPrev, stepHistory, spawned, fresh, zeroDiv>>

\* interactionPoints: <<idx, radius, weight in tenths>>
InteractionPoints ==
  <<<<9, 70, 10>>, <<8, 40, 7>>, <<12, 40, 6>>, <<4, 35, 5>>, <<20, 35, 4>>>>

\* results.multiHandLandmarks: a sequence of hands, a hand a function from
\* landmark index to [x, y], normalized coordinates in percent.
LandmarkInputs ==
  {<<>>, <<(9 :> [x |-> 60, y |-> 50] @@ 8 :> [x |-> 65, y |-> 40])>>}

\* computeHandForces(), one interaction point k of hand hi:
\* <<the prevPositions entry, the force sample>>.
HandPoint(hands, hi, k, prev, w, h, ms) ==
  LET point == InteractionPoints[k]
      lm == hands[hi][point[1]]
      x == ((100 - lm.x) * w) \div 100
      y == (lm.y * h) \div 100
      key == <<hi, point[1]>>
      moved == key \in DOMAIN prev /\ ms > 0 /\ ms < 200
      vx == IF moved THEN SmoothVelocity(prev[key].vx, prev[key].x, x, ms) ELSE 0
      vy == IF moved THEN SmoothVelocity(prev[key].vy, prev[key].y, y, ms) ELSE 0
  IN  <<[x |-> x, y |-> y, vx |-> vx, vy |-> vy],
        Sample(x, y, MulDiv(vx, point[3], 10), MulDiv(vy, point[3], 10),
               TRUE, Px(point[2]))>>

\* computeHandForces(): <<prevPositions, forces>> after the points n.. of the
\* hands, in loop order (n counts hands times points).
RECURSIVE HandPoints(_, _, _, _, _, _, _)
HandPoints(hands, n, prev, forces, w, h, ms) ==
  IF n > Len(hands) * Len(InteractionPoints) THEN <<prev, forces>>
  ELSE LET hi == ((n - 1) \div Len(InteractionPoints)) + 1
           k == ((n - 1) % Len(InteractionPoints)) + 1
       IN  IF InteractionPoints[k][1] \notin DOMAIN hands[hi]
           THEN HandPoints(hands, n + 1, prev, forces, w, h, ms)
           ELSE LET r == HandPoint(hands, hi, k, prev, w, h, ms)
                    key == <<hi, InteractionPoints[k][1]>>
                    prev2 == [q \in DOMAIN prev \cup {key} |->
                                IF q = key THEN r[1] ELSE prev[q]]
                IN  HandPoints(hands, n + 1, prev2, Append(forces, Inline(r[2])),
                               w, h, ms)

\* onResults(results)
OnResults ==
  /\ Idle
  /\ budget.calls > 0
  /\ \E hands \in LandmarkInputs, ms \in Elapsed :
       IF Len(hands) > 0
       THEN LET r == HandPoints(hands, 1, trackerPrev, <<>>, width, height, ms)
            IN  trackerPrev' = r[1] /\ trackerForces' = r[2]
       ELSE trackerForces' = <<>> /\ UNCHANGED trackerPrev
  /\ last' = "onResults"
  /\ budget' = Spend("calls")
  /\ UNCHANGED <<simVars, hashVars, stepVars, mouseObjs, mouseForce, prevMouse,
                 stepHistory, spawned, fresh, zeroDiv>>

\* gameLoop(): if (mouseForce) forces.push(mouseForce)
MouseSamplesLastCreated(mf) ==
  IF mouseObjs # <<>> THEN <<MouseRef(Len(mouseObjs))>> ELSE <<>>

MouseSamples(mf) == IF mf # 0 THEN <<MouseRef(mf)>> ELSE <<>>

\* gameLoop(): the list it collects
CollectForces == trackerForces \o MouseSamples(mouseForce)

\* gameLoop(): sim.setHandForces(forces); sim.step()
GameLoop ==
  /\ Idle
  /\ budget.steps > 0
  /\ handForces' = CollectForces
  /\ fresh' = TRUE
  /\ EnterStep
  /\ last' = "gameLoop"
  /\ UNCHANGED <<particles, width, height, gravityEnabled, grid, hashVars,
                 driverVars, stamps, spawned, zeroDiv>>

(***************************************************************************)
(* Direct use of the SpatialHash                                           *)
(***************************************************************************)
RECURSIVE SeqToSet(_)
SeqToSet(q) == IF q = <<>> THEN {} ELSE {Head(q)} \cup SeqToSet(Tail(q))

Inserted(g) == UNION {SeqToSet(g[k]) : k \in DOMAIN g}

\* clear()
HashClear ==
  /\ grid' = EmptyGrid
  /\ neighbors' = <<>>
  /\ query' = <<>>
  /\ last' = "clear"
  /\ UNCHANGED <<particles, width, height, gravityEnabled, handForces, stepVars,
                 driverVars, stepHistory, spawned, fresh, zeroDiv, budget>>

\* insert(particle), of a particle not yet in the hash
HashInsert ==
  /\ \E i \in 1..Len(particles) :
       /\ i \notin Inserted(grid)
       /\ grid' = Insert(grid, particles, i)
  /\ neighbors' = <<>>
  /\ query' = <<>>
  /\ last' = "insert"
  /\ UNCHANGED <<particles, width, height, gravityEnabled, handForces, stepVars,
                 driverVars, stepHistory, spawned, fresh, zeroDiv, budget>>

\* Points of interest for the hash: either side of cell borders, negative
\* coordinates, and the cells (32399, 124734) and (32400, 124735).
FarX == 32399 * 35
FarY == 124734 * 35
HashPoints ==
  {<<Px(30), Px(30)>>, <<Px(40), Px(40)>>, <<Px(-10), Px(-10)>>,
   <<Px(35), Px(30)>>,
   <<Px(FarX + 10), Px(FarY + 10)>>, <<Px(FarX + 36), Px(FarY + 36)>>}

\* getNeighbors(x, y)
HashQuery ==
  /\ \E q \in HashPoints :
       /\ neighbors' = GetNeighbors(grid, q[1], q[2])
       /\ query' = <<q>>
  /\ last' = "query"
  /\ UNCHANGED <<simVars, stepVars, driverVars, stepHistory, spawned, fresh,
                 zeroDiv, budget>>

(***************************************************************************)
(* Specifications                                                          *)
(***************************************************************************)
NoStamps ==
  [hash |-> <<>>, hashPos |-> <<>>, dens |-> <<>>, densHash |-> <<>>,
   densHashPos |-> <<>>, densPos |-> <<>>, force |-> <<>>, forceDens |-> <<>>,
   forceHash |-> <<>>, forceHashPos |-> <<>>, forcePos |-> <<>>,
   int |-> <<>>, intForce |-> <<>>]

\* Everything but the engine's particles, bounds, gravity flag and sample list,
\* as the constructors and the module-level declarations leave it.
InitRest(steps, calls, integrates) ==
  /\ grid = EmptyGrid
  /\ neighbors = <<>>
  /\ query = <<>>
  /\ pc = "idle"
  /\ sub = 0
  /\ mouseObjs = <<>>
  /\ mouseForce = 0
  /\ prevMouse = <<>>
  /\ trackerForces = <<>>
  /\ trackerPrev = [k \in {} |-> <<>>]
  /\ last = "new"
  /\ phaseLog = <<>>
  /\ readForces = <<>>
  /\ stamps = NoStamps
  /\ fresh = FALSE
  /\ zeroDiv = FALSE
  /\ start = <<>>
  /\ budget = [steps |-> steps, calls |-> calls, integrates |-> integrates]

\* new SPHSimulation(w, h) in a 300 x 200 window, with the driver's state.
Init ==
  /\ particles = <<>>
  /\ width = Px(300)
  /\ height = Px(200)
  /\ gravityEnabled = TRUE
  /\ handForces = <<>>
  /\ spawned = 0
  /\ InitRest(MaxSteps, MaxCalls, 0)

Next ==
  \/ SpawnBlob
  \/ SpawnGrid
  \/ Reset
  \/ SetHandForces
  \/ Resize
  \/ ToggleGravity
  \/ StepCall
  \/ Rebuild
  \/ ComputeDensityPressure
  \/ ComputeForces
  \/ Integrate
  \/ PointerDown
  \/ PointerMove
  \/ PointerUp
  \/ PointerLeave
  \/ OnResults
  \/ GameLoop

Spec == Init /\ [][Next]_vars

\* integrate(DT) on one particle in any state, in a domain of any positive size.
IntegrateCoords == {Px(-50), Px(3), Px(6), Px(50), Px(94), Px(97), Px(500)}
IntegrateVelocities == {-4000 * VelScale, 0, 4000 * VelScale}
IntegrateForces == {-1000000 * ForceScale, 0, 50 * ForceScale}
IntegrateDensities == {0, Poly6Term(H2)}
IntegrateSizes == {Px(10), Px(12), Px(100)}

InitIntegrate ==
  /\ \E x \in IntegrateCoords, y \in {Px(3), Px(50), Px(97)},
        vx \in IntegrateVelocities, vy \in {0, 4000 * VelScale},
        fx \in IntegrateForces, fy \in {0, 50 * ForceScale},
        d \in IntegrateDensities :
       particles = <<[CreateParticle(x, y, vx, vy) EXCEPT
                        !.fx = fx, !.fy = fy, !.density = d]>>
  /\ width \in IntegrateSizes
  /\ height \in IntegrateSizes
  /\ gravityEnabled = TRUE
  /\ handForces = <<>>
  /\ spawned = 1
  /\ InitRest(0, 0, MaxIntegrates)

NextIntegrate == IntegrateCall

SpecIntegrate == InitIntegrate /\ [][NextIntegrate]_vars

\* step() on one or two particles, for the sample lists a caller may supply.
PhysParticles ==
  {CreateParticle(Px(100), Px(100), 0, 0),
   CreateParticle(Px(100), Px(100), 50 * VelScale, -30 * VelScale),
   CreateParticle(Px(105), Px(100), 0, 0),
   CreateParticle(Px(30), Px(30), 0, 0),
   CreateParticle(Px(40), Px(40), 0, 0),
   CreateParticle(Px(FarX + 10), Px(FarY + 10), 0, 0),
   CreateParticle(Px(FarX + 10), Px(FarY + 10), 50 * VelScale, -30 * VelScale)}

PhysForceLists ==
  {<<>>,
   <<Inline(Sample(Px(100), Px(100), 0, 0, FALSE, 0))>>,
   <<Inline(Sample(Px(102), Px(100), 10 * VelScale, 0, TRUE, 0))>>,
   <<Inline(Sample(Px(103), Px(101), 0, 0, TRUE, -Px(50)))>>,
   <<Inline(Sample(Px(100) + 50, Px(100), 0, 5 * VelScale, TRUE, Px(40))),
     Inline(Sample(Px(38), Px(38), 0, 0, FALSE, 0))>>}

InitPhys ==
  /\ \E n \in 1..MaxPhysParticles : particles \in [1..n -> PhysParticles]
  /\ width = Px(300)
  /\ height = Px(200)
  /\ gravityEnabled \in BOOLEAN
  /\ handForces \in PhysForceLists
  /\ spawned = Len(particles)
  /\ InitRest(MaxPhysSteps, 0, 0)

NextPhys ==
  \/ StepCall
  \/ Rebuild
  \/ ComputeDensityPressure
  \/ ComputeForces
  \/ Integrate

SpecPhys == InitPhys /\ [][NextPhys]_vars

\* The SpatialHash alone, over one or more particles at the points of interest.
InitHash ==
  /\ \E n \in 1..MaxHashParticles :
       \E at \in [1..n -> HashPoints] :
         particles = [i \in 1..n |-> CreateParticle(at[i][1], at[i][2], 0, 0)]
  /\ width = Px(300)
  /\ height = Px(200)
  /\ gravityEnabled = TRUE
  /\ handForces = <<>>
  /\ spawned = Len(particles)
  /\ InitRest(0, 0, 0)

NextHash ==
  \/ HashClear
  \/ HashInsert
  \/ HashQuery

SpecHash == InitHash /\ [][NextHash]_vars

\* A call of step() by a frame of a loop that never stops calling it.
FrameStep ==
  /\ Idle
  /\ pc' = "rebuild"
  /\ sub' = 0
  /\ phaseLog' = <<>>
  /\ readForces' = <<>>
  /\ start' = particles
  /\ last' = "step"
  /\ UNCHANGED <<simVars, hashVars, driverVars, stamps, spawned, fresh, zeroDiv,
                 budget>>

\* One particle above or on the floor of a 300 x 50 domain, at rest, falling or
\* rising; gravity on, no samples; step() is called again and again.
FallStarts ==
  {Px(40), Px(43), Px(44)} \X {0, 30 * VelScale, -20 * VelScale}

InitFall ==
  /\ \E at \in FallStarts :
       particles = <<CreateParticle(Px(100), at[1], 0, at[2])>>
  /\ width = Px(300)
  /\ height = Px(50)
  /\ gravityEnabled = TRUE
  /\ handForces = <<>>
  /\ spawned = 1
  /\ InitRest(0, 0, 0)

NextFall ==
  \/ FrameStep
  \/ Rebuild
  \/ ComputeDensityPressure
  \/ ComputeForces
  \/ Integrate

\* requestAnimationFrame keeps calling the loop and a step() call runs to its
\* end: the position in step() keeps changing. (Every step of NextFall changes
\* pc and one is always possible, so this is weak fairness of NextFall.)
PhaseChange ==
  /\ pc' \in {"idle", "rebuild", "density", "forces", "integrate"}
  /\ pc' # pc

SpecFall == InitFall /\ [][NextFall]_vars /\ WF_pc(PhaseChange)

\* The pointer handlers and the game loop alone, over an empty simulation.
MaxPointerEvents == 4
MaxPointerFrames == 2

InitPointer ==
  /\ particles = <<>>
  /\ width = Px(300)
  /\ height = Px(200)
  /\ gravityEnabled = TRUE
  /\ handForces = <<>>
  /\ spawned = 0
  /\ InitRest(MaxPointerFrames, MaxPointerEvents, 0)

NextPointer ==
  \/ PointerDown
  \/ PointerMove
  \/ PointerUp
  \/ PointerLeave
  \/ GameLoop
  \/ Rebuild
  \/ ComputeDensityPressure
  \/ ComputeForces
  \/ Integrate

SpecPointer == InitPointer /\ [][NextPointer]_vars

(***************************************************************************)
(* Properties                                                              *)
(***************************************************************************)
InDomain(p) ==
  /\ PARTICLE_RADIUS <= p.x /\ p.x <= width - PARTICLE_RADIUS
  /\ PARTICLE_RADIUS <= p.y /\ p.y <= height - PARTICLE_RADIUS

\* C1 as stated: after an integrate pass, whatever the particle state, the
\* forces and the positive domain size, every particle lies in
\* [PARTICLE_RADIUS, width - PARTICLE_RADIUS] x
\* [PARTICLE_RADIUS, height - PARTICLE_RADIUS].
C1_AnyPositiveDomain ==
  last = "integrate" => \A i \in 1..Len(particles) : InDomain(particles[i])

\* C1, amended: after an integrate pass every particle lies in the rectangle
\* when the domain is at least 2 * PARTICLE_RADIUS wide and high; on an axis
\* where the domain is narrower the particle is left at size - PARTICLE_RADIUS,
\* below PARTICLE_RADIUS.
C1_BoundaryInvariant ==
  last = "integrate" =>
    \A i \in 1..Len(particles) :
      /\ IF width >= 2 * PARTICLE_RADIUS
         THEN /\ PARTICLE_RADIUS <= particles[i].x
              /\ particles[i].x <= width - PARTICLE_RADIUS
         ELSE particles[i].x = width - PARTICLE_RADIUS
      /\ IF height >= 2 * PARTICLE_RADIUS
         THEN /\ PARTICLE_RADIUS <= particles[i].y
              /\ particles[i].y <= height - PARTICLE_RADIUS
         ELSE particles[i].y = height - PARTICLE_RADIUS

\* A particle that arrived at the right wall and had its velocity reversed.
C1_Witness ==
  /\ last = "integrate"
  /\ width >= 2 * PARTICLE_RADIUS
  /\ height >= 2 * PARTICLE_RADIUS
  /\ particles[1].x = width - PARTICLE_RADIUS
  /\ particles[1].vx < 0

\* C2: getNeighbors(x, y) returns every inserted particle closer than H to
\* (x, y).
C2_NoDroppedNeighbor ==
  last = "query" =>
    \A i \in Inserted(grid) :
      Dist2(query[1][1], query[1][2], particles[i].x, particles[i].y) < H2
        => i \in SeqToSet(neighbors)

\* A true neighbour returned from a cell other than the query point's.
C2_Witness ==
  /\ last = "query"
  /\ \E i \in Inserted(grid) :
       /\ Dist2(query[1][1], query[1][2], particles[i].x, particles[i].y) < H2
       /\ CellCoord(particles[i].x) # CellCoord(query[1][1])
       /\ i \in SeqToSet(neighbors)

\* The passes of a complete step(), in order.
RECURSIVE ExpectedPhases(_)
ExpectedPhases(n) ==
  IF n = 0 THEN <<>>
  ELSE Append(ExpectedPhases(n - 1),
              <<"rebuild", "density", "forces", "integrate">>[((n - 1) % 4) + 1])

\* C3: a step() call runs SUBSTEPS substeps of rebuild, density, forces,
\* integrate, in this order; a density pass queries the hash rebuilt in its own
\* substep from the positions it reads, a force pass reads the densities of its
\* own substep and the hash of its own substep, and an integrate pass the
\* forces of its own substep.
C3_StepOrder ==
  /\ Len(phaseLog) <= 4 * SUBSTEPS
  /\ phaseLog = ExpectedPhases(Len(phaseLog))
  /\ pc # "idle" =>
       /\ Len(phaseLog) < 4 * SUBSTEPS
       /\ sub = Len(phaseLog) \div 4
       /\ pc = ExpectedPhases(Len(phaseLog) + 1)[Len(phaseLog) + 1]
  /\ (pc = "idle" /\ phaseLog # <<>>) => Len(phaseLog) = 4 * SUBSTEPS
  /\ stamps.densHash = stamps.dens
  /\ stamps.densHashPos = stamps.densPos
  /\ stamps.forceDens = stamps.force
  /\ stamps.forceHash = stamps.force
  /\ stamps.forceHashPos = stamps.forcePos
  /\ stamps.intForce = stamps.int

\* A completed step() that moved a particle.
C3_Witness ==
  /\ pc = "idle"
  /\ Len(phaseLog) = 4 * SUBSTEPS
  /\ Len(particles) > 0
  /\ Len(start) = Len(particles)
  /\ Positions(start) # Positions(particles)

C4_Scenario ==
  /\ start = <<CreateParticle(Px(100), Px(100), 0, 0),
               CreateParticle(Px(105), Px(100), 0, 0)>>
  /\ ~gravityEnabled
  /\ handForces = <<>>
  /\ phaseLog = <<"rebuild", "density", "forces", "integrate">>

\* C4 as stated: two particles at (100,100) and (105,100), at rest, no gravity,
\* no force samples: after one substep the left one's x has decreased and the
\* right one's x has increased, and neither y has changed.
C4_MovedApart ==
  C4_Scenario =>
    /\ particles[1].x < start[1].x
    /\ particles[2].x > start[2].x
    /\ particles[1].y = start[1].y
    /\ particles[2].y = start[2].y

\* C4, amended: in that scenario, after one substep the left particle's x has
\* increased and the right particle's x has decreased (the two moved toward
\* each other without crossing), and neither y has changed.
C4_MovedTogether ==
  C4_Scenario =>
    /\ particles[1].x > start[1].x
    /\ particles[2].x < start[2].x
    /\ particles[1].x < particles[2].x
    /\ particles[1].y = start[1].y
    /\ particles[2].y = start[2].y

\* The scenario after its first substep: both pressures are negative.
C4_Witness ==
  /\ C4_Scenario
  /\ particles[1].pressure < 0
  /\ particles[2].pressure < 0
  /\ particles[1].x > start[1].x

\* C5: the force passes of one step() call all read the same sample values.
C5_SameForcesInStep ==
  \A k \in 1..Len(readForces) : readForces[k] = readForces[1]

\* A completed step() whose four force passes read the mouse sample.
C5_Witness ==
  /\ pc = "idle"
  /\ Len(readForces) = SUBSTEPS
  /\ readForces[1] # <<>>
  /\ mouseForce # 0
  /\ Len(particles) > 0

\* C6: getParticleCount() is the sum of the counts of the spawn calls made
\* since the last reset or construction.
C6_CountIsSpawned == GetParticleCount = spawned

\* Two particles spawned, after a completed step().
C6_Witness ==
  /\ pc = "idle"
  /\ Len(phaseLog) = 4 * SUBSTEPS
  /\ spawned = 2
  /\ GetParticleCount = 2

\* C7 as stated: a force pass applies a sample only if the list was supplied
\* (setHandForces) since the previous step() returned.
C7_NoStaleSamples ==
  (last = "forces" /\ readForces[Len(readForces)] # <<>>) => fresh

Coincident(ps) ==
  /\ Len(ps) = 2
  /\ ps[1].x = ps[2].x
  /\ ps[1].y = ps[2].y

\* C8 as stated: for two particles at the same position, the density pass
\* gives each the self-weight twice, and the force pass adds no pressure and
\* no viscosity term of one to the other and divides by nothing that is zero.
C8_CoincidentPair ==
  (Coincident(start) /\ sub = 0) =>
    /\ last = "density" =>
         \A i \in 1..2 : particles[i].density = 2 * Poly6Term(H2)
    /\ last = "forces" =>
         /\ particles = ForcePass(particles, EmptyGrid,
                                  Samples(mouseObjs, handForces), gravityEnabled)
         /\ ~zeroDiv

\* C9: no division of a step() has a zero divisor, and densities are >= 0
\* once a density pass has run.
C9_NoZeroDivisor ==
  /\ ~zeroDiv
  /\ last \in {"density", "forces", "integrate"} =>
       \A i \in 1..Len(particles) :
         /\ particles[i].density >= 0
         /\ particles[i].density + DensityEps > 0
         /\ 2 * particles[i].density + DensityEps > 0

\* A force pass over two coincident particles with a sample of negative radius
\* in range of them.
C9_Witness ==
  /\ last = "forces"
  /\ ~zeroDiv
  /\ Coincident(particles)
  /\ \E k \in 1..Len(handForces) :
       LET hand == Deref(mouseObjs, handForces[k])
       IN  /\ HandRadius(hand) < 0
           /\ HandInRange(Dist2(hand.x, hand.y, particles[1].x, particles[1].y),
                          Sq(HandRadius(hand)))

\* C10 as stated: with every particle inserted once, getNeighbors(x, y) returns
\* no particle twice.
C10_NoDuplicates ==
  (last = "query" /\ Inserted(grid) = 1..Len(particles)) =>
    Cardinality(SeqToSet(neighbors)) = Len(neighbors)


\* C11: resize(width, height) changes the domain bounds and nothing else of the
\* simulation (no particle field, not the particle collection, not the sample
\* list, not the hash); no step other than an integrate pass moves a particle,
\* so a particle left outside the new bounds stays where it is until an
\* integrate pass, which puts it inside them.
C11_ResizeFrame ==
  [][/\ last' = "resize" =>
          /\ particles' = particles
          /\ handForces' = handForces
          /\ gravityEnabled' = gravityEnabled
          /\ grid' = grid
          /\ mouseObjs' = mouseObjs
     /\ (last' # "integrate" /\ Len(particles') = Len(particles)) =>
          Positions(particles') = Positions(particles)
     /\ last' = "integrate" =>
          \A i \in 1..Len(particles') :
            /\ PARTICLE_RADIUS <= particles'[i].x
            /\ particles'[i].x <= width - PARTICLE_RADIUS
            /\ PARTICLE_RADIUS <= particles'[i].y
            /\ particles'[i].y <= height - PARTICLE_RADIUS]_vars

\* Just after a resize that left a particle beyond the new right wall.
C11_Witness ==
  /\ last = "resize"
  /\ \E i \in 1..Len(particles) : particles[i].x > width - PARTICLE_RADIUS


\* vy of p after the velocity update of an integrate pass, before any clamp.
FallingVy(p) == Accelerate(p.vy, p.fy, p.density)

\* Whether the floor clamp of an integrate pass fires for p.
FloorClampFires(p) ==
  LET y == Advance(p.y, FallingVy(p))
  IN  (IF y < PARTICLE_RADIUS THEN PARTICLE_RADIUS ELSE y)
        > height - PARTICLE_RADIUS

MouseRefs(list) == {list[k].ref : k \in 1..Len(list)} \ {0}

\* C13: mouseForce and prevMouse are both null or both non-null, no pointermove
\* reads a field of a null prevMouse, and the list a frame hands to the
\* simulation holds the current mouse sample if there is one and no mouse
\* sample otherwise.
C13_MousePair ==
  /\ (mouseForce = 0) <=> (prevMouse = <<>>)
  /\ last # "TypeError"
  /\ (last = "gameLoop" \/ pc # "idle") =>
       MouseRefs(handForces) = (IF mouseForce = 0 THEN {} ELSE {mouseForce})

\* A frame after pointerdown, pointermove and pointerup (or pointerleave).
C13_Witness ==
  /\ last = "gameLoop"
  /\ mouseForce = 0
  /\ prevMouse = <<>>
  /\ mouseObjs # <<>>
  /\ mouseObjs[1].x = Px(120)
  /\ handForces = <<>>

====
